---- MODULE Spec2Model ----
(***************************************************************************)
(* GoldMIND API server (goldmind_api_server.py): the GoldMINDAPI object    *)
(* (recommendation cache, metrics counters), its request handlers as run   *)
(* by Flask's threaded server, and the pure decision functions.            *)
(*                                                                         *)
(* Units: time in seconds; prices in cents; RSI in tenths; confidence and  *)
(* multipliers in thousandths; success rate in hundredths of a percent.    *)
(***************************************************************************)
EXTENDS Integers, Sequences, FiniteSets, TLC

VARIABLES
    recommendation_cache,  \* self.recommendation_cache: cache_key -> entry
    system_metrics,        \* self.system_metrics: the three counters + uptime_start
    now,                   \* the latest reading of the wall clock (time.time(), datetime.now())
    pc,                    \* per request thread: position in generate_recommendation
    user_id,               \* per thread: the user_id argument of the running call
    current_time,          \* per thread: local current_time (line 50)
    counter,               \* per thread: the counter its "+= 1" is updating
    loaded,                \* per thread: the value its "+= 1" has read
    result,                \* per thread: outcome of the call so far
    last_response,         \* per user: the latest answer of /recommendation/<user>
    ncalls,                \* /recommendation requests dispatched so far
    nprobes,               \* /health and /metrics requests dispatched so far
    reply,                 \* last HTTP response of /health or /metrics
    fn_in,                 \* argument drawn for a pure function
    fn_out                 \* what the function returned for fn_in

vars == <<recommendation_cache, system_metrics, now, pc, user_id, current_time,
          counter, loaded, result, last_response, ncalls, nprobes, reply, fn_in, fn_out>>

server_vars == <<recommendation_cache, system_metrics, now, pc, user_id,
                 current_time, counter, loaded, result, last_response, ncalls,
                 nprobes, reply>>

(***************************** bounds **************************************)
MaxUser == 1
MaxRequests == 3
TickStep == 150
MaxTime == 300
MaxProfileId == 9

\* The request threads of the server (app.run: Flask's threaded server).
Threads == {1, 2}
Users == 0..MaxUser

(************************* program constants *******************************)
cache_timeout == 300
api_version == "1.0.0"
base_price == 200000
volatility == 20

\* Names bound in the module's global namespace (imports of lines 7-14 and the
\* top-level definitions).  "import random" is at line 107, inside
\* get_market_analysis: it binds a local name of that function only.
module_globals ==
    {"Flask", "jsonify", "request", "render_template_string", "os", "sys",
     "json", "logging", "datetime", "timedelta", "threading", "time",
     "logger", "GoldMINDAPI", "app", "goldmind", "DASHBOARD_HTML"}

\* str(NameError) for an unbound global name
NameError(name) == <<"name", name, "is not defined">>

(**************************** outcomes *************************************)
\* A call either returns a value or raises.
Ok(v) == [raised |-> FALSE, value |-> v]
Raise(e) == [raised |-> TRUE, exc |-> e]
None == [none |-> TRUE]
NoReply == [endpoint |-> "", status |-> 0, body |-> None]

Max(a, b) == IF a >= b THEN a ELSE b
Min(a, b) == IF a <= b THEN a ELSE b

\* round(n / d) to the nearest integer, ties to even (Python's round), d > 0
Round(n, d) ==
    LET q == n \div d
        r == n % d
    IN  IF 2 * r < d THEN q
        ELSE IF 2 * r > d THEN q + 1
        ELSE IF q % 2 = 0 THEN q ELSE q + 1

\* f"user_{user_id}"
cache_key(u) == <<"user_", u>>

\* datetime.isoformat(): one string per clock value
isoformat(t) == <<"iso", t>>

(************************ the pure functions *******************************)
\* an RSI generator that can go below 30
RsiDraws_below_30 == {250, 500, 700}

\* random.uniform(30, 70) rounded to one decimal: values in [30.0, 70.0]
RsiDraws == {300, 500, 700}
\* random.uniform(-volatility, volatility), in hundredths of a percent
PriceChangeDraws == {-(volatility * 10), volatility * 10}
VolumeDraws == {1000000, 3000000}
MacdDraws == {-500, 1500}
Trends == {"bullish", "bearish", "sideways"}

get_market_analysis ==
    { [current_price |-> base_price + (base_price * c) \div 10000,
       change_24h |-> (base_price * c) \div 10000,
       change_percent_24h |-> c,
       volume |-> v,
       rsi |-> r,
       macd |-> m,
       bollinger_position |-> b,
       trend |-> t,
       volatility |-> volatility * 10] :
        c \in PriceChangeDraws, v \in VolumeDraws, r \in RsiDraws,
        m \in MacdDraws, b \in {"upper", "middle", "lower"}, t \in Trends }

risk_levels == <<"conservative", "moderate", "aggressive">>
experience_levels == <<"beginner", "intermediate", "expert">>

get_user_profile(u) ==
    IF "random" \in module_globals
    THEN { Ok([user_id |-> u,
               risk_tolerance |-> risk_levels[(u % 3) + 1],
               experience_level |-> experience_levels[((u \div 3) % 3) + 1],
               portfolio_size |-> p,
               trading_frequency |-> f,
               preferred_strategy |-> s]) :
             p \in {"small", "medium", "large"},
             f \in {"daily", "weekly", "monthly"},
             s \in {"swing", "scalp", "position"} }
    ELSE { Raise(NameError("random")) }

determine_action(user_profile, market_conditions) ==
    LET rsi == market_conditions.rsi
        trend == market_conditions.trend
        risk_tolerance == user_profile.risk_tolerance
    IN  IF rsi < 300 /\ trend = "bullish" THEN { Ok("BUY") }
        ELSE IF rsi > 700 /\ trend = "bearish" THEN { Ok("SELL") }
        ELSE IF risk_tolerance = "conservative" THEN { Ok("HOLD") }
        ELSE IF trend = "sideways" THEN { Ok("HOLD") }
        ELSE IF "random" \in module_globals
             THEN { Ok(a) : a \in {"BUY", "SELL", "HOLD"} }
             ELSE { Raise(NameError("random")) }

\* calculate_confidence with the beginner adjustment added instead of subtracted
calculate_confidence_beginner_plus(user_profile, market_conditions) ==
    LET c0 == 500
        c1 == IF market_conditions.trend # "sideways" THEN c0 + 200 ELSE c0
        c2 == IF 300 <= market_conditions.rsi /\ market_conditions.rsi <= 700
              THEN c1 + 100 ELSE c1
        c3 == IF user_profile.experience_level = "expert" THEN c2 + 100
              ELSE IF user_profile.experience_level = "beginner" THEN c2 + 100
              ELSE c2
    IN  Min(Max(c3, 100), 950)

calculate_confidence(user_profile, market_conditions) ==
    LET c0 == 500
        c1 == IF market_conditions.trend # "sideways" THEN c0 + 200 ELSE c0
        c2 == IF 300 <= market_conditions.rsi /\ market_conditions.rsi <= 700
              THEN c1 + 100 ELSE c1
        c3 == IF user_profile.experience_level = "expert" THEN c2 + 100
              ELSE IF user_profile.experience_level = "beginner" THEN c2 - 100
              ELSE c2
    IN  Min(Max(c3, 100), 950)

\* get_target_multiplier falling back to 0 for an unknown action
get_target_multiplier_default_0(action) ==
    CASE action = "BUY" -> 50
      [] action = "SELL" -> -30
      [] action = "HOLD" -> 20
      [] OTHER -> 0

get_target_multiplier(action) ==
    CASE action = "BUY" -> 50
      [] action = "SELL" -> -30
      [] action = "HOLD" -> 20
      [] OTHER -> 20

get_stop_loss_multiplier(action) ==
    CASE action = "BUY" -> 30
      [] action = "SELL" -> 50
      [] action = "HOLD" -> 20
      [] OTHER -> 20

generate_reasoning(action, market_conditions, user_profile) ==
    CASE action = "BUY" ->
            <<"BUY", market_conditions.trend, market_conditions.rsi,
              user_profile.risk_tolerance>>
      [] action = "SELL" -> <<"SELL", market_conditions.rsi>>
      [] action = "HOLD" -> <<"HOLD", market_conditions.trend>>
      [] OTHER -> <<"default">>

(******************** GoldMINDAPI.generate_recommendation ******************)
\* Lines 59-79: the outcomes of building a new recommendation at clock value
\* clock: a recommendation, or the exception raised on the way.
new_recommendation(u, clock) ==
    UNION { UNION {
        IF p.raised THEN { p }
        ELSE { IF a.raised THEN a
               ELSE Ok([user_id |-> u,
                        action |-> a.value,
                        confidence |-> calculate_confidence(p.value, m),
                        target_price |->
                            Round(m.current_price
                                    * (1000 + get_target_multiplier(a.value)), 1000),
                        stop_loss |->
                            Round(m.current_price
                                    * (1000 - get_stop_loss_multiplier(a.value)), 1000),
                        reasoning |-> generate_reasoning(a.value, m, p.value),
                        market_data |-> m,
                        user_profile |-> p.value,
                        timestamp |-> isoformat(clock),
                        expires_at |-> isoformat(clock + 5 * 60),
                        system_status |-> "operational",
                        api_version |-> api_version]) :
               a \in determine_action(p.value, m) }
        : p \in get_user_profile(u) } : m \in get_market_analysis }

\* the handler filling in the same user id for every caller
except_Exception_user0(out, u, clock) ==
    IF out.raised
    THEN Ok([error |-> out.exc,
             user_id |-> 0,
             timestamp |-> isoformat(clock),
             system_status |-> "error"])
    ELSE out

\* a handler that lets the exception through
except_reraise(out, u, clock) == out

\* Lines 91-99: "except Exception" turns whatever the try block raised into
\* the error payload, which is returned.

except_Exception(out, u, clock) ==
    IF out.raised
    THEN Ok([error |-> out.exc,
             user_id |-> u,
             timestamp |-> isoformat(clock),
             system_status |-> "error"])
    ELSE out

\* get_recommendation answering 500 for every error payload
get_recommendation_error_500(out) ==
    IF out.raised
    THEN [status |-> 500, body |-> [error |-> out.exc]]
    ELSE [status |-> IF "error" \in DOMAIN out.value THEN 500 ELSE 200,
          body |-> out.value]

\* Lines 397-405: the route serialises what generate_recommendation returned,
\* or answers 500 when an exception reached it.
get_recommendation(out) ==
    IF out.raised
    THEN [status |-> 500, body |-> [error |-> out.exc]]
    ELSE [status |-> 200, body |-> out.value]

\* What a reading of the clock can return: the wall clock never runs backwards,
\* and any amount of time may have passed since the previous reading.
clock_readings ==
    { now + k * TickStep : k \in 0..((MaxTime - now) \div TickStep) }

\* Lines 52-54: the entry is present and younger than cache_timeout
fresh(cache, key, time) ==
    /\ key \in DOMAIN cache
    /\ time - cache[key].cache_time < cache_timeout

Init_server ==
    /\ recommendation_cache = <<>>
    /\ system_metrics = [requests_count |-> 0,
                         successful_recommendations |-> 0,
                         errors |-> 0,
                         uptime_start |-> 0]
    /\ now = 0
    /\ pc = [t \in Threads |-> "idle"]
    /\ user_id = [t \in Threads |-> 0]
    /\ current_time = [t \in Threads |-> 0]
    /\ counter = [t \in Threads |-> "requests_count"]
    /\ loaded = [t \in Threads |-> 0]
    /\ result = [t \in Threads |-> None]
    /\ last_response = [u \in Users |-> None]
    /\ ncalls = 0
    /\ nprobes = 0
    /\ reply = NoReply

\* A request for /recommendation/<u> is dispatched to a free thread (line 401);
\* the threads are interchangeable, so the first free one takes it.
Call(t, u) ==
    /\ pc[t] = "idle"
    /\ \A s \in Threads : pc[s] = "idle" => t <= s
    /\ ncalls + nprobes < MaxRequests
    /\ ncalls' = ncalls + 1
    /\ user_id' = [user_id EXCEPT ![t] = u]
    /\ counter' = [counter EXCEPT ![t] = "requests_count"]
    /\ pc' = [pc EXCEPT ![t] = "load"]
    /\ UNCHANGED <<recommendation_cache, system_metrics, now, current_time,
                   loaded, result, last_response, nprobes, reply, fn_in, fn_out>>

\* "self.system_metrics[k] += 1" (lines 46, 87, 92) reads the counter ...
LoadCounter(t) ==
    /\ pc[t] = "load"
    /\ loaded' = [loaded EXCEPT ![t] = system_metrics[counter[t]]]
    /\ pc' = [pc EXCEPT ![t] = "store"]
    /\ UNCHANGED <<recommendation_cache, system_metrics, now, user_id,
                   current_time, counter, result, last_response, ncalls, nprobes, reply,
                   fn_in, fn_out>>

\* ... and stores the value read plus one; no lock is held in between.
StoreCounter(t) ==
    /\ pc[t] = "store"
    /\ system_metrics' = [system_metrics EXCEPT ![counter[t]] = loaded[t] + 1]
    /\ pc' = [pc EXCEPT ![t] =
                IF counter[t] = "requests_count" THEN "check" ELSE "return"]
    /\ loaded' = [loaded EXCEPT ![t] = 0]
    /\ UNCHANGED <<recommendation_cache, now, user_id, current_time, counter,
                   result, last_response, ncalls, nprobes, reply, fn_in, fn_out>>

\* Lines 49-56: read the clock, look the key up, return the fresh payload.
CheckCache(t) ==
    /\ pc[t] = "check"
    /\ now' \in clock_readings
    /\ current_time' = [current_time EXCEPT ![t] = now']
    /\ IF fresh(recommendation_cache, cache_key(user_id[t]), now')
       THEN /\ result' = [result EXCEPT ![t] =
                    Ok(recommendation_cache[cache_key(user_id[t])].data)
                        @@ [cached |-> TRUE]]
            /\ pc' = [pc EXCEPT ![t] = "return"]
       ELSE /\ result' = result
            /\ pc' = [pc EXCEPT ![t] = "generate"]
    /\ UNCHANGED <<recommendation_cache, system_metrics, user_id, counter,
                   loaded, last_response, ncalls, nprobes, reply, fn_in, fn_out>>

\* Generate storing the error payload in the cache when the generation raised
Generate_caching_error(t) ==
    /\ pc[t] = "generate"
    /\ \E read \in clock_readings : \E out \in new_recommendation(user_id[t], read) :
        /\ now' = (IF out.raised THEN now ELSE read)
        /\ result' = [result EXCEPT ![t] = out @@ [cached |-> FALSE]]
        /\ counter' = [counter EXCEPT ![t] =
                IF out.raised THEN "errors" ELSE "successful_recommendations"]
        /\ recommendation_cache' =
             [k \in DOMAIN recommendation_cache \cup {cache_key(user_id[t])} |->
                IF k = cache_key(user_id[t])
                THEN [data |-> except_Exception(out, user_id[t], read).value,
                      cache_time |-> current_time[t]]
                ELSE recommendation_cache[k]]
    /\ pc' = [pc EXCEPT ![t] = "load"]
    /\ UNCHANGED <<system_metrics, user_id, current_time, loaded, last_response,
                   ncalls, nprobes, reply, fn_in, fn_out>>

\* Lines 59-85: build the recommendation and store it in the cache; an
\* exception on the way enters the handler (line 92) with the cache untouched.
Generate(t) ==
    /\ pc[t] = "generate"
    /\ \E read \in clock_readings : \E out \in new_recommendation(user_id[t], read) :
        /\ now' = (IF out.raised THEN now ELSE read)
        /\ result' = [result EXCEPT ![t] = out @@ [cached |-> FALSE]]
        /\ IF out.raised
           THEN /\ counter' = [counter EXCEPT ![t] = "errors"]
                /\ recommendation_cache' = recommendation_cache
           ELSE /\ counter' = [counter EXCEPT ![t] = "successful_recommendations"]
                /\ recommendation_cache' =
                     [k \in DOMAIN recommendation_cache \cup {cache_key(user_id[t])} |->
                        IF k = cache_key(user_id[t])
                        THEN [data |-> out.value, cache_time |-> current_time[t]]
                        ELSE recommendation_cache[k]]
    /\ pc' = [pc EXCEPT ![t] = "load"]
    /\ UNCHANGED <<system_metrics, user_id, current_time, loaded, last_response,
                   ncalls, nprobes, reply, fn_in, fn_out>>

\* Lines 56, 89, 94-99 and 402-405: the method returns and the route answers.
Return(t) ==
    /\ pc[t] = "return"
    /\ now' \in (IF result[t].raised THEN clock_readings ELSE {now})
    /\ LET r == result[t]
           out == except_Exception(IF r.raised THEN Raise(r.exc) ELSE Ok(r.value),
                                   user_id[t], now')
           http == get_recommendation(out)
       IN  last_response' = [last_response EXCEPT ![user_id[t]] =
                [current_time |-> current_time[t],
                 cached |-> r.cached,
                 raised |-> r.raised,
                 status |-> http.status,
                 body |-> http.body]]
    /\ pc' = [pc EXCEPT ![t] = "idle"]
    /\ user_id' = [user_id EXCEPT ![t] = 0]
    /\ current_time' = [current_time EXCEPT ![t] = 0]
    /\ counter' = [counter EXCEPT ![t] = "requests_count"]
    /\ loaded' = [loaded EXCEPT ![t] = 0]
    /\ result' = [result EXCEPT ![t] = None]
    /\ UNCHANGED <<recommendation_cache, system_metrics, ncalls, nprobes, reply,
                   fn_in, fn_out>>

(************************ health_check, get_system_metrics *****************)
\* success_rate dividing by requests_count itself
success_rate_unguarded(metrics) ==
    IF metrics.requests_count = 0
    THEN Raise("division by zero")
    ELSE Ok(Round(metrics.successful_recommendations * 10000,
                  metrics.requests_count))

\* Lines 213-215: round(successful / max(requests, 1) * 100, 2); the division
\* raises ZeroDivisionError on a zero divisor.
success_rate(metrics) ==
    LET d == Max(metrics.requests_count, 1)
    IN  IF d = 0
        THEN Raise("division by zero")
        ELSE Ok(Round(metrics.successful_recommendations * 10000, d))

\* Lines 199-225
health_check(cache, metrics, clock) ==
    LET rate == success_rate(metrics)
    IN  IF rate.raised THEN rate
        ELSE Ok([status |-> "healthy",
                 timestamp |-> isoformat(clock),
                 version |-> api_version,
                 uptime_seconds |-> clock - metrics.uptime_start,
                 metrics |-> [total_requests |-> metrics.requests_count,
                              successful_recommendations |->
                                  metrics.successful_recommendations,
                              error_count |-> metrics.errors,
                              success_rate |-> rate.value,
                              cache_size |-> Cardinality(DOMAIN cache)]])

\* Lines 227-236
get_system_metrics(cache, metrics, clock) ==
    Ok([timestamp |-> isoformat(clock),
        metrics |-> metrics,
        cache_status |-> [size |-> Cardinality(DOMAIN cache),
                          timeout |-> cache_timeout]])

\* Lines 392-395 and 407-410: the routes have no handler of their own; Flask
\* answers 500 for an exception that leaves a view.
route(endpoint, out) ==
    IF out.raised
    THEN [endpoint |-> endpoint, status |-> 500, body |-> None]
    ELSE [endpoint |-> endpoint, status |-> 200, body |-> out.value]

HealthCheck ==
    /\ ncalls + nprobes < MaxRequests
    /\ nprobes' = nprobes + 1
    /\ now' \in clock_readings
    /\ reply' = route("/health",
                      health_check(recommendation_cache, system_metrics, now'))
    /\ UNCHANGED <<recommendation_cache, system_metrics, pc, user_id,
                   current_time, counter, loaded, result, last_response, ncalls,
                   fn_in, fn_out>>

GetSystemMetrics ==
    /\ ncalls + nprobes < MaxRequests
    /\ nprobes' = nprobes + 1
    /\ now' \in clock_readings
    /\ reply' = route("/metrics",
                      get_system_metrics(recommendation_cache, system_metrics, now'))
    /\ UNCHANGED <<recommendation_cache, system_metrics, pc, user_id,
                   current_time, counter, loaded, result, last_response, ncalls,
                   fn_in, fn_out>>

Init ==
    /\ Init_server
    /\ fn_in = None
    /\ fn_out = None

Next ==
    \/ \E t \in Threads, u \in Users : Call(t, u)
    \/ \E t \in Threads : LoadCounter(t)
    \/ \E t \in Threads : StoreCounter(t)
    \/ \E t \in Threads : CheckCache(t)
    \/ \E t \in Threads : Generate(t)
    \/ \E t \in Threads : Return(t)
    \/ HealthCheck
    \/ GetSystemMetrics

Spec == Init /\ [][Next]_vars

\* The same server with one request in the building at a time.
CallSerial(t, u) ==
    /\ \A s \in Threads : pc[s] = "idle"
    /\ Call(t, u)

NextSerial ==
    \/ \E t \in Threads, u \in Users : CallSerial(t, u)
    \/ \E t \in Threads : LoadCounter(t)
    \/ \E t \in Threads : StoreCounter(t)
    \/ \E t \in Threads : CheckCache(t)
    \/ \E t \in Threads : Generate(t)
    \/ \E t \in Threads : Return(t)
    \/ HealthCheck
    \/ GetSystemMetrics

SpecSerial == Init /\ [][NextSerial]_vars

(******************* the pure functions on drawn arguments *****************)
\* RSI arguments (tenths): both sides of the 30 and 70 thresholds
RsiInputs == {0, 250, 299, 300, 301, 500, 699, 700, 701, 800, 1000}

FnInputs ==
    [ user_profile : [risk_tolerance : {"conservative", "moderate", "aggressive"},
                      experience_level : {"beginner", "intermediate", "expert"}],
      market_conditions : [rsi : RsiInputs, trend : Trends] ]

InitFn ==
    /\ Init_server
    /\ fn_in \in FnInputs
    /\ fn_out = None

ApplyDetermineAction ==
    /\ \E o \in determine_action(fn_in.user_profile, fn_in.market_conditions) :
          fn_out' = [fn |-> "determine_action", out |-> o]
    /\ UNCHANGED <<server_vars, fn_in>>

ApplyCalculateConfidence ==
    /\ fn_out' = [fn |-> "calculate_confidence",
                  out |-> Ok(calculate_confidence(fn_in.user_profile,
                                                  fn_in.market_conditions))]
    /\ UNCHANGED <<server_vars, fn_in>>

\* Lines 59 and 63: the market analysis of a call and the action determined
\* from it for the drawn profile.
ApplyMarketAction ==
    /\ \E m \in get_market_analysis :
        \E o \in determine_action(fn_in.user_profile, m) :
          fn_out' = [fn |-> "market_action", rsi |-> m.rsi, trend |-> m.trend,
                     out |-> o]
    /\ UNCHANGED <<server_vars, fn_in>>

\* user ids given to get_user_profile: every pair of (id mod 3, id div 3 mod 3)
ProfileIds == 0..MaxProfileId

ApplyGetUserProfile ==
    /\ \E u \in ProfileIds : \E o \in get_user_profile(u) :
          fn_out' = [fn |-> "get_user_profile", user_id |-> u, out |-> o]
    /\ UNCHANGED <<server_vars, fn_in>>

\* action arguments: the three table keys and strings that are not keys
ActionInputs == {"BUY", "SELL", "HOLD", "WAIT", "buy", ""}

ApplyMultipliers ==
    /\ \E a \in ActionInputs :
          fn_out' = [fn |-> "multipliers", action |-> a,
                     out |-> Ok([target |-> get_target_multiplier(a),
                                 stop_loss |-> get_stop_loss_multiplier(a)])]
    /\ UNCHANGED <<server_vars, fn_in>>

NextFn ==
    \/ ApplyDetermineAction
    \/ ApplyCalculateConfidence
    \/ ApplyMarketAction
    \/ ApplyGetUserProfile
    \/ ApplyMultipliers

SpecFn == InitFn /\ [][NextFn]_vars

(******************************* claims ************************************)
\* The thread t completes a /recommendation request in this step.
Returns(t) == pc[t] = "return" /\ pc'[t] = "idle"

\* C1: a call for user u whose time is less than cache_timeout after the time
\* of the previous answered call for u returns exactly the payload that call
\* returned.
C1_SecondCallWithinTimeoutReturnsSamePayload ==
    [][\A t \in Threads :
        LET u == user_id[t]
            old == last_response[u]
            new == last_response'[u]
        IN  (/\ Returns(t)
             /\ old # None
             /\ 0 <= new.current_time - old.current_time
             /\ new.current_time - old.current_time < cache_timeout)
            => new.body = old.body]_vars

\* C2: a call for user u made cache_timeout or more after the previous call for
\* u (which, by C3, wrote the entry) returns a new payload with a later
\* creation timestamp, and the cache entry of u then holds that payload.
C2_CallAfterTimeoutReplacesEntry ==
    [][\A t \in Threads :
        LET u == user_id[t]
            old == last_response[u]
            new == last_response'[u]
        IN  (/\ Returns(t)
             /\ old # None
             /\ new.current_time - old.current_time >= cache_timeout)
            => /\ new.body # old.body
               /\ new.body.timestamp[2] > old.body.timestamp[2]
               /\ cache_key(u) \in DOMAIN recommendation_cache'
               /\ recommendation_cache'[cache_key(u)].data = new.body]_vars

\* C3: a call that found no fresh entry returned a recommendation with
\* system_status "operational", the cache holds an entry for the user and
\* successful_recommendations has been incremented.
C3_CacheMissGeneratesAndCaches ==
    \A u \in Users :
        (last_response[u] # None /\ ~last_response[u].cached)
        => /\ last_response[u].body.system_status = "operational"
           /\ cache_key(u) \in DOMAIN recommendation_cache
           /\ system_metrics.successful_recommendations >= 1

\* C4: when calls for distinct users have run, in any interleaving, and all
\* have finished, requests_count equals the number of calls.
C4_NoLostRequestIncrement ==
    (/\ \A t \in Threads : pc[t] = "idle"
     /\ Cardinality({u \in Users : last_response[u] # None}) = ncalls)
    => system_metrics.requests_count = ncalls

C6_Status500OnInternalException ==
    \A u \in Users :
        last_response[u] # None
        => /\ last_response[u].raised <=> last_response[u].status = 500
           /\ last_response[u].raised
              => DOMAIN last_response[u].body =
                    {"error", "user_id", "timestamp", "system_status"}

\* C6 amended: the answer is 200 also when an internal exception occurred while
\* generating, its body then being the four-field error object; a body without
\* an error field is answered only when no internal exception occurred.
C6_ErrorObjectWithStatus200 ==
    \A u \in Users :
        last_response[u] # None
        => /\ last_response[u].status = 200
           /\ last_response[u].raised
              => DOMAIN last_response[u].body =
                    {"error", "user_id", "timestamp", "system_status"}
           /\ "error" \notin DOMAIN last_response[u].body
              => ~last_response[u].raised

\* C6 witness: a request whose generation raised has been answered.
C6_Witness ==
    \E u \in Users :
        /\ last_response[u] # None
        /\ last_response[u].raised
        /\ last_response[u].status = 200
        /\ "error" \in DOMAIN last_response[u].body

\* C7: no step makes requests_count, successful_recommendations or errors
\* smaller.
C7_CountersNeverDecrease ==
    [][/\ system_metrics'.requests_count >= system_metrics.requests_count
       /\ system_metrics'.successful_recommendations
            >= system_metrics.successful_recommendations
       /\ system_metrics'.errors >= system_metrics.errors]_vars

\* C8: calculate_confidence is within [0.1, 0.95] and equals 0.5, +0.2 if the
\* trend is not sideways, +0.1 if 30 <= RSI <= 70, +0.1 for an expert, -0.1
\* for a beginner, clamped to [0.1, 0.95].
C8_ConfidenceFormulaAndRange ==
    (fn_out # None /\ fn_out.fn = "calculate_confidence")
    => LET m == fn_in.market_conditions
           e == fn_in.user_profile.experience_level
           sum == 500
                  + (IF m.trend \in {"bullish", "bearish"} THEN 200 ELSE 0)
                  + (IF m.rsi \in 300..700 THEN 100 ELSE 0)
                  + (IF e = "expert" THEN 100 ELSE 0)
                  - (IF e = "beginner" THEN 100 ELSE 0)
           v == fn_out.out.value
       IN  /\ ~fn_out.out.raised
           /\ 100 <= v /\ v <= 950
           /\ v = (IF sum < 100 THEN 100 ELSE IF sum > 950 THEN 950 ELSE sum)

\* C8 witness: the confidence of a beginner in a sideways market with an RSI
\* outside [30, 70] has been computed (the smallest sum).
C8_Witness ==
    /\ fn_out # None
    /\ fn_out.fn = "calculate_confidence"
    /\ fn_in.user_profile.experience_level = "beginner"
    /\ fn_in.market_conditions.trend = "sideways"
    /\ fn_in.market_conditions.rsi > 700
    /\ fn_out.out.value = 400

\* C9: determine_action returns BUY for RSI < 30 and bullish, else SELL for
\* RSI > 70 and bearish, else HOLD for a conservative user, else HOLD for a
\* sideways trend, and in the remaining cases a member of {BUY, SELL, HOLD}.
C9_DetermineActionPrecedence ==
    (fn_out # None /\ fn_out.fn = "determine_action")
    => LET m == fn_in.market_conditions
           p == fn_in.user_profile
       IN  /\ ~fn_out.out.raised
           /\ IF m.rsi < 300 /\ m.trend = "bullish"
              THEN fn_out.out.value = "BUY"
              ELSE IF m.rsi > 700 /\ m.trend = "bearish"
              THEN fn_out.out.value = "SELL"
              ELSE IF p.risk_tolerance = "conservative"
              THEN fn_out.out.value = "HOLD"
              ELSE IF m.trend = "sideways"
              THEN fn_out.out.value = "HOLD"
              ELSE fn_out.out.value \in {"BUY", "SELL", "HOLD"}

\* C10: the success rate reported by health_check is
\* successful_recommendations / max(requests_count, 1) * 100, it is 0 when
\* requests_count is 0, and computing it never faults.
C10_SuccessRateGuarded ==
    reply.endpoint = "/health"
    => /\ reply.status = 200
       /\ LET m == reply.body.metrics
              d == IF m.total_requests >= 1 THEN m.total_requests ELSE 1
          IN  /\ m.success_rate * d = m.successful_recommendations * 10000
              /\ m.total_requests = 0 => m.success_rate = 0

\* C10 witness: health_check has answered before any request was counted.
C10_Witness ==
    /\ reply.endpoint = "/health"
    /\ reply.status = 200
    /\ reply.body.metrics.total_requests = 0
    /\ reply.body.metrics.success_rate = 0

\* C11: a cache entry that is still fresh (younger than cache_timeout) is never
\* overwritten, also when calls run concurrently, and every call for u whose
\* time is less than cache_timeout after that of the previous answered call
\* for u returns the payload that call returned.
C11_FreshEntryNeverOverwritten ==
    [][/\ \A k \in DOMAIN recommendation_cache :
            (now' - recommendation_cache[k].cache_time < cache_timeout)
            => /\ k \in DOMAIN recommendation_cache'
               /\ recommendation_cache'[k] = recommendation_cache[k]
       /\ \A t \in Threads :
            LET u == user_id[t]
                old == last_response[u]
                new == last_response'[u]
            IN  (/\ Returns(t)
                 /\ old # None
                 /\ ~old.cached
                 /\ 0 <= new.current_time - old.current_time
                 /\ new.current_time - old.current_time < cache_timeout)
                => /\ new.cached
                   /\ new.body = old.body]_vars

\* C12: a step of a generate_recommendation(u) call leaves the cache entry of
\* every other user v (presence, payload, write time) unchanged, and the
\* payload answered to a call for u carries user_id u and replaces no other
\* user's answer.
C12_CacheSlotsPerUser ==
    [][\A t \in Threads :
        (pc[t] # "idle" /\ pc'[t] # pc[t])
        => /\ \A v \in Users \ {user_id[t]} :
                /\ (cache_key(v) \in DOMAIN recommendation_cache')
                     <=> (cache_key(v) \in DOMAIN recommendation_cache)
                /\ (cache_key(v) \in DOMAIN recommendation_cache)
                     => recommendation_cache'[cache_key(v)]
                          = recommendation_cache[cache_key(v)]
           /\ Returns(t)
                => /\ last_response'[user_id[t]].body.user_id = user_id[t]
                   /\ \A v \in Users \ {user_id[t]} :
                        last_response'[v] = last_response[v]]_vars

\* C12 witness: calls for two different users have been answered, each with its
\* own user id.
C12_Witness ==
    /\ \A u \in {0, 1} :
        /\ last_response[u] # None
        /\ last_response[u].body.user_id = u
    /\ \A t \in Threads : pc[t] = "idle"

\* C14: the "+= 1" of line 46 of every call leaves requests_count exactly one
\* above its value before the call's store and no other step of the call
\* changes it; a call that returns a cached payload changes neither
\* successful_recommendations, errors nor the cache.
C14_EveryCallCountsOnce ==
    [][\A t \in Threads :
        /\ (pc[t] = "store" /\ pc'[t] # "store" /\ counter[t] = "requests_count")
           => system_metrics' =
                [system_metrics EXCEPT !.requests_count = @ + 1]
        /\ (pc[t] # "idle" /\ pc'[t] # pc[t]
              /\ ~(pc[t] = "store" /\ counter[t] = "requests_count"))
           => system_metrics'.requests_count = system_metrics.requests_count
        /\ (pc'[t] # pc[t] /\ result'[t] # None /\ result'[t].cached)
           => /\ recommendation_cache' = recommendation_cache
              /\ system_metrics' = system_metrics
        /\ (Returns(t) /\ result[t].cached)
           => /\ recommendation_cache' = recommendation_cache
              /\ system_metrics' = system_metrics]_vars

\* C15: in every state successful_recommendations + errors <= requests_count,
\* and the success rate reported by health_check lies between 0 and 100
\* percent.
C15_OutcomesBoundedByRequests ==
    /\ system_metrics.successful_recommendations + system_metrics.errors
         <= system_metrics.requests_count
    /\ (reply.endpoint = "/health" /\ reply.status = 200)
       => /\ 0 <= reply.body.metrics.success_rate
          /\ reply.body.metrics.success_rate <= 10000

\* C16: no step of a call whose generation raised changes the cache or
\* successful_recommendations; every payload in the cache has system_status
\* "operational"; the cache never holds more entries than
\* successful_recommendations counts; and a call for u made after a failed call
\* for u finds no fresh entry and generates again.
C16_ErrorPayloadsNeverCached ==
    [][/\ \A t \in Threads :
            /\ (pc'[t] # pc[t] /\ result'[t] # None /\ result'[t].raised)
               => /\ recommendation_cache' = recommendation_cache
                  /\ system_metrics'.successful_recommendations
                       = system_metrics.successful_recommendations
            /\ (Returns(t) /\ result[t].raised)
               => /\ recommendation_cache' = recommendation_cache
                  /\ system_metrics'.successful_recommendations
                       = system_metrics.successful_recommendations
                  /\ last_response'[user_id[t]].body.system_status = "error"
            /\ (pc[t] = "check" /\ pc'[t] # "check"
                  /\ last_response[user_id[t]] # None
                  /\ last_response[user_id[t]].raised)
               => pc'[t] = "generate"
       /\ \A k \in DOMAIN recommendation_cache' :
            recommendation_cache'[k].data.system_status = "operational"
       /\ Cardinality(DOMAIN recommendation_cache')
            <= system_metrics'.successful_recommendations]_vars

\* C16 witness: a call for u has returned an error payload, the cache is still
\* empty, and a later call for u has passed the cache check and is generating.
C16_Witness ==
    \E t \in Threads :
        /\ pc[t] = "generate"
        /\ last_response[user_id[t]] # None
        /\ last_response[user_id[t]].raised
        /\ last_response[user_id[t]].body.system_status = "error"
        /\ current_time[t] >= last_response[user_id[t]].current_time
        /\ cache_key(user_id[t]) \notin DOMAIN recommendation_cache
        /\ system_metrics.errors >= 1

\* C17: the RSI of a market analysis lies within [30, 70], so for the action
\* determined from it neither RSI rule fires: a conservative profile and a
\* sideways trend each give HOLD, and BUY or SELL is returned only where the
\* random branch is reached (profile not conservative, trend not sideways).
C17_GeneratedRsiNeverTriggersRules ==
    (fn_out # None /\ fn_out.fn = "market_action")
    => /\ 300 <= fn_out.rsi /\ fn_out.rsi <= 700
       /\ (fn_in.user_profile.risk_tolerance = "conservative"
             \/ fn_out.trend = "sideways")
          => fn_out.out = Ok("HOLD")
       /\ (~fn_out.out.raised /\ fn_out.out.value \in {"BUY", "SELL"})
          => /\ fn_in.user_profile.risk_tolerance # "conservative"
             /\ fn_out.trend # "sideways"

\* C17 witness: for a conservative profile, a bullish market at the lowest RSI
\* the analysis produces (30.0) has given HOLD.
C17_Witness ==
    /\ fn_out # None
    /\ fn_out.fn = "market_action"
    /\ fn_in.user_profile.risk_tolerance = "conservative"
    /\ fn_out.rsi = 300
    /\ fn_out.trend = "bullish"
    /\ fn_out.out = Ok("HOLD")

\* C18: for every user id get_user_profile returns a profile whose
\* risk_tolerance is conservative, moderate, aggressive for id mod 3 = 0, 1, 2
\* and whose experience_level is beginner, intermediate, expert for
\* (id div 3) mod 3 = 0, 1, 2.
C18_ProfileFieldsFromUserId ==
    (fn_out # None /\ fn_out.fn = "get_user_profile")
    => /\ ~fn_out.out.raised
       /\ fn_out.out.value.risk_tolerance =
            (CASE fn_out.user_id % 3 = 0 -> "conservative"
               [] fn_out.user_id % 3 = 1 -> "moderate"
               [] fn_out.user_id % 3 = 2 -> "aggressive")
       /\ fn_out.out.value.experience_level =
            (CASE (fn_out.user_id \div 3) % 3 = 0 -> "beginner"
               [] (fn_out.user_id \div 3) % 3 = 1 -> "intermediate"
               [] (fn_out.user_id \div 3) % 3 = 2 -> "expert")

\* C19: get_target_multiplier gives 0.05, -0.03, 0.02 and
\* get_stop_loss_multiplier gives 0.03, 0.05, 0.02 for BUY, SELL, HOLD, and both
\* give 0.02 for any other action.
C19_MultiplierTables ==
    (fn_out # None /\ fn_out.fn = "multipliers")
    => LET a == fn_out.action
           v == fn_out.out.value
       IN  /\ a = "BUY" => (v.target = 50 /\ v.stop_loss = 30)
           /\ a = "SELL" => (v.target = -30 /\ v.stop_loss = 50)
           /\ a = "HOLD" => (v.target = 20 /\ v.stop_loss = 20)
           /\ a \notin {"BUY", "SELL", "HOLD"}
                => (v.target = 20 /\ v.stop_loss = 20)

\* C19 witness: the multipliers of an action that is in neither table have been
\* looked up.
C19_Witness ==
    /\ fn_out # None
    /\ fn_out.fn = "multipliers"
    /\ fn_out.action = "WAIT"
    /\ fn_out.out.value = [target |-> 20, stop_loss |-> 20]

====
